---- MODULE Spec2Model ----
(***************************************************************************)
(* Blogify backend: posts, threaded comments and their engagement          *)
(* counters, as the Express handlers and the Mongoose schemas hooks        *)
(* implement them.                                                         *)
(*                                                                         *)
(* A request is a process: it advances from one awaited store call to the  *)
(* next.  reqs[r].pc names the store call the request is waiting for; an   *)
(* action performs that call atomically (one MongoDB single-document       *)
(* operation, or one multi-document deleteMany / countDocuments) and then   *)
(* runs the handler's synchronous code up to the next await.               *)
(*                                                                         *)
(* doc.save() of a loaded document is Mongoose's delta save: only the      *)
(* paths changed since the load are written ($set), an array grown with    *)
(* push() is written as $push onto the stored array, an array replaced by  *)
(* assignment is written whole under the document's version key __v, and   *)
(* every array change increments __v.                                      *)
(***************************************************************************)
EXTENDS Integers, Sequences, FiniteSets, TLC

\* ------------------------------------------------------------------ bounds
\* Requests accepted in one behaviour (also the logical clock's range).
MaxReqs == 4
\* Ids the Post and Comment collections can hand out.
MaxPosts == 2
MaxComments == 3

\* ------------------------------------------------------- program constants
\* substring(0, 50) of the slug
SlugMaxLen == 50
\* maxlength of title
TitleMaxLen == 200
\* maxlength of comment
CommentMaxLen == 1000
\* minlength of content
ContentMinLen == 10
\* wordsPerMinute of the readTime hook
WordsPerMinute == 200
\* substring(0, 150) of the excerpt
ExcerptLen == 150
\* the page size of the comment list when the query names none
ListLimitDefault == 20

\* --------------------------------------------------------------- universe
Users == {"ann", "bob", "root"}
Anon == "anon"
Procs == {"r1", "r2"}
PostIds == 1..MaxPosts
CommentIds == 1..MaxComments
Placeholder == <<"[This comment has been deleted]">>
Statuses == {"Draft", "Published", "Archived"}

\* ------------------------------------------------------------ characters
\* Strings that the code inspects character by character (titles, slugs)
\* are sequences of one-character strings.
UpperChars == {"H", "W"}
LowerChars == {"h", "e", "l", "o", "w", "r", "d", "a"}
DigitChars == {"1"}
SpaceChars == {" "}
PunctChars == {"!", "-", "<", ">", "/", "."}

\* String.prototype.toLowerCase, per character
LowerChar(c) ==
    CASE c = "H" -> "h"
      [] c = "W" -> "w"
      [] OTHER -> c

\* the class [a-zA-Z0-9\s] of the slug's first replace
IsSlugChar(c) == c \in UpperChars \cup LowerChars \cup DigitChars \cup SpaceChars

IsSpace(c) == c \in SpaceChars

ToLowerCase(s) == [i \in 1..Len(s) |-> LowerChar(s[i])]

\* .replace(/[^a-zA-Z0-9\s]/g, "")
StripNonSlug(s) == SelectSeq(s, IsSlugChar)

\* .replace(/\s+/g, "-"): every maximal run of whitespace becomes one hyphen
HyphenateSpaces(s) ==
    LET marked == [i \in 1..Len(s) |->
                      IF ~IsSpace(s[i]) THEN s[i]
                      ELSE IF i < Len(s) /\ IsSpace(s[i + 1]) THEN "run"
                      ELSE "-"]
    IN  SelectSeq(marked, LAMBDA c : c # "run")

\* .substring(0, n)
Substring0(s, n) == SubSeq(s, 1, IF Len(s) < n THEN Len(s) ELSE n)

\* the slug expression of postSchema.pre("save")
Slugify(title) ==
    Substring0(HyphenateSpaces(StripNonSlug(ToLowerCase(title))), SlugMaxLen)

\* String.prototype.trim
RECURSIVE TrimStart(_)
TrimStart(s) ==
    IF s # <<>> /\ IsSpace(Head(s)) THEN TrimStart(Tail(s)) ELSE s

RECURSIVE TrimEnd(_)
TrimEnd(s) ==
    IF s # <<>> /\ IsSpace(s[Len(s)]) THEN TrimEnd(SubSeq(s, 1, Len(s) - 1)) ELSE s

Trim(s) == TrimEnd(TrimStart(s))

\* n copies of the character c
Repeat(c, n) == [i \in 1..n |-> c]

\* .replace(/<[^>]*>/g, ""): s from position i on, without every stretch
\* from a "<" to the next ">"
RECURSIVE StripTagsFrom(_, _)
StripTagsFrom(s, i) ==
    LET closes == {k \in i..Len(s) : s[k] = ">"}
        opens == {j \in i..Len(s) : s[j] = "<" /\ \E k \in closes : k > j}
    IN  IF opens = {} THEN SubSeq(s, i, Len(s))
        ELSE LET o == CHOOSE j \in opens : \A x \in opens : j <= x
                 c == CHOOSE k \in closes : k > o /\ \A x \in closes : x > o => k <= x
             IN  SubSeq(s, i, o - 1) \o StripTagsFrom(s, c + 1)

StripTags(s) == StripTagsFrom(s, 1)

\* .split(/\s+/).length: one more than the maximal runs of whitespace
SplitLength(s) ==
    1 + Cardinality({i \in 1..Len(s) :
                       IsSpace(s[i]) /\ (i = 1 \/ ~IsSpace(s[i - 1]))})

\* Math.ceil(words / wordsPerMinute) of the content without its tags
ReadTime(content) ==
    (SplitLength(StripTags(content)) + WordsPerMinute - 1) \div WordsPerMinute

\* content without its tags, .substring(0, 150) + "..."
Excerpt(content) == Substring0(StripTags(content), ExcerptLen) \o <<".", ".", ".">>

\* --------------------------------------------------------------- state
VARIABLES
    users,      \* User collection: user id -> [role, isActive]
    posts,      \* Post collection: id -> document, for the stored ids
    comments,   \* Comment collection: id -> document, for the stored ids
    nextPost,   \* ids handed out so far by the Post collection
    nextComment,\* ids handed out so far by the Comment collection
    reqs,       \* the requests in flight, and each slot's last response
    nreq        \* requests accepted so far; the logical clock of new Date()

vars == <<users, posts, comments, nextPost, nextComment, reqs, nreq>>

\* new Date() / Date.now
Now == nreq

\* A request slot.  doc and orig hold the loaded document (orig as loaded,
\* doc as changed in memory) in a sequence of length 0 or 1; arr tells how
\* the likes array was changed in memory; cnt is the count the post-save
\* hook read.  The response keeps err, liked and count (likesCount); ver,
\* fault and retry are history: the __v the like handler read, whether a
\* store call was made to fail, whether the request repeats a failed delete.
\* More history: was is what the handler found (the post's status for an
\* update, "live" or "deleted" for a soft delete); base is the counter the
\* request is about as it was stored when the handler read the document
\* (views, likesCount, the post's commentsCount); carry holds base and liked
\* of the slot's previous response when that was a successful toggle of the
\* same actor on the same entity; seen holds the post as stored when the
\* post-save hook counted, and raced tells whether another field of that
\* post was written between the hook's count and its write.  page and limit
\* are the query of a comment list (0 when the query names none), list and
\* total its response: the comments of the page, each an id with the ids of
\* its populated replies, and totalComments.
Idle ==
    [op |-> "none", pc |-> "idle", actor |-> Anon, role |-> "none",
     pid |-> 0, cid |-> 0, title |-> <<>>, content |-> <<>>,
     category |-> "", status |-> "", body |-> <<>>,
     parent |-> 0, doc |-> <<>>, orig |-> <<>>, arr |-> "none", cnt |-> 0,
     err |-> "none", liked |-> FALSE, count |-> 0, ver |-> 0,
     fault |-> FALSE, retry |-> FALSE, was |-> "", base |-> 0,
     carry |-> <<>>, seen |-> <<>>, raced |-> FALSE,
     page |-> 0, limit |-> 0, list |-> <<>>, total |-> 0,
     target |-> "", newRole |-> "", hooks |-> <<>>, step |-> 0]

Init ==
    /\ users = [u \in Users |->
                  [role |-> IF u = "root" THEN "admin" ELSE "user",
                   isActive |-> TRUE]]
    /\ posts = <<>>
    /\ comments = <<>>
    /\ nextPost = 0
    /\ nextComment = 0
    /\ reqs = [r \in Procs |-> Idle]
    /\ nreq = 0

\* ------------------------------------------------------------ documents
\* new Post({...}) with the schema defaults (POST /api/posts)
NewPost(title, content, category, status, author) ==
    [title |-> title, content |-> content, category |-> category,
     status |-> status, author |-> author, likes |-> <<>>,
     likesCount |-> 0, commentsCount |-> 0, views |-> 0, readTime |-> 1,
     excerpt |-> <<>>, slug |-> <<>>, publishedAt |-> 0, v |-> 0]

\* new Comment({...}) with the schema defaults (POST /api/comments/:postId)
NewComment(body, post, userId, parent) ==
    [comment |-> body, post |-> post, userId |-> userId,
     parentComment |-> parent, replies |-> <<>>, likes |-> <<>>,
     likesCount |-> 0, isEdited |-> FALSE, editedAt |-> 0,
     isDeleted |-> FALSE, deletedAt |-> 0, createdAt |-> 0, v |-> 0]

\* the paths a new Post document counts as modified: those its constructor set
NewPostPaths == {"title", "content", "category", "status", "author"}

\* doc.isModified(path) of a loaded document, for every path at once
ModifiedPaths(doc, orig) == {f \in DOMAIN doc : doc[f] # orig[f]}

\* the hook stamping publishedAt at every change of status to Published
PostPreSaveDerivedRestamp(doc, mod, now) ==
    LET d1 == IF "title" \in mod /\ doc.slug = <<>>
              THEN [doc EXCEPT !.slug = Slugify(doc.title)]
              ELSE doc
        d2 == IF "content" \in mod
              THEN [d1 EXCEPT !.readTime = ReadTime(d1.content),
                              !.excerpt = IF d1.excerpt = <<>>
                                          THEN Excerpt(d1.content) ELSE @]
              ELSE d1
    IN  IF "status" \in mod /\ d2.status = "Published"
        THEN [d2 EXCEPT !.publishedAt = now]
        ELSE d2

\* the hook stamping publishedAt at a change of status to any value
PostPreSaveDerivedAnyStatus(doc, mod, now) ==
    LET d1 == IF "title" \in mod /\ doc.slug = <<>>
              THEN [doc EXCEPT !.slug = Slugify(doc.title)]
              ELSE doc
        d2 == IF "content" \in mod
              THEN [d1 EXCEPT !.readTime = ReadTime(d1.content),
                              !.excerpt = IF d1.excerpt = <<>>
                                          THEN Excerpt(d1.content) ELSE @]
              ELSE d1
    IN  IF "status" \in mod /\ d2.publishedAt = 0
        THEN [d2 EXCEPT !.publishedAt = now]
        ELSE d2

\* first postSchema.pre("save"): slug, readTime, excerpt and publishedAt
PostPreSaveDerived(doc, mod, now) ==
    LET d1 == IF "title" \in mod /\ doc.slug = <<>>
              THEN [doc EXCEPT !.slug = Slugify(doc.title)]
              ELSE doc
        d2 == IF "content" \in mod
              THEN [d1 EXCEPT !.readTime = ReadTime(d1.content),
                              !.excerpt = IF d1.excerpt = <<>>
                                          THEN Excerpt(d1.content) ELSE @]
              ELSE d1
    IN  IF "status" \in mod /\ d2.status = "Published" /\ d2.publishedAt = 0
        THEN [d2 EXCEPT !.publishedAt = now]
        ELSE d2

\* the likes hook testing the path of the counter instead of the array
PostPreSaveLikesWrongPath(doc, mod) ==
    IF "likesCount" \in mod THEN [doc EXCEPT !.likesCount = Len(doc.likes)] ELSE doc

\* second postSchema.pre("save"): likes count
PostPreSaveLikes(doc, mod) ==
    IF "likes" \in mod THEN [doc EXCEPT !.likesCount = Len(doc.likes)] ELSE doc

PostPreSave(doc, mod, now) ==
    PostPreSaveLikes(PostPreSaveDerived(doc, mod, now), mod)

\* commentSchema.pre("save")
CommentPreSave(doc, mod, isNew, now) ==
    LET d1 == IF "likes" \in mod
              THEN [doc EXCEPT !.likesCount = Len(doc.likes)]
              ELSE doc
    IN  IF "comment" \in mod /\ ~isNew
        THEN [d1 EXCEPT !.isEdited = TRUE, !.editedAt = now]
        ELSE d1

\* the validators without the minimum length of content
PostValidAnyContent(doc) ==
    /\ doc.title # <<>>
    /\ Len(doc.title) <= TitleMaxLen
    /\ doc.content # <<>>
    /\ doc.status \in {"Draft", "Published", "Archived"}

\* the validators without the enum of status
PostValidAnyStatus(doc) ==
    /\ doc.title # <<>>
    /\ Len(doc.title) <= TitleMaxLen
    /\ doc.content # <<>>
    /\ Len(doc.content) >= ContentMinLen

\* Schema validators run by save() on the modified paths of a post:
\* title required (after the trim setter) and at most 200 long, content
\* required and at least 10 long, status in the enum.
PostValid(doc) ==
    /\ doc.title # <<>>
    /\ Len(doc.title) <= TitleMaxLen
    /\ doc.content # <<>>
    /\ Len(doc.content) >= ContentMinLen
    /\ doc.status \in Statuses

\* save() writing the whole document as it is in memory
DeltaWriteWhole(stored, d, orig, arr) ==
    [f \in DOMAIN stored |->
        IF f = "v" THEN (IF arr = "none" THEN stored.v ELSE stored.v + 1)
        ELSE d[f]]

\* The update save() sends for a loaded document: $set of every modified
\* path; for an array, $push of the pushed elements when it was grown by
\* push(), $set of the whole array when it was assigned; $inc of __v on any
\* array change.
DeltaWrite(stored, d, orig, arr) ==
    [f \in DOMAIN stored |->
        CASE f = "likes" ->
               IF arr = "push"
               THEN stored.likes \o SubSeq(d.likes, Len(orig.likes) + 1, Len(d.likes))
               ELSE IF arr = "set" THEN d.likes ELSE stored.likes
          [] f = "v" -> IF arr = "none" THEN stored.v ELSE stored.v + 1
          [] OTHER -> IF d[f] # orig[f] THEN d[f] ELSE stored[f]]

\* Whether the update of save() matches a stored document: the _id must
\* exist, and an assigned array adds __v to the filter (VersionError).
DeltaMatches(coll, id, orig, arr) ==
    /\ id \in DOMAIN coll
    /\ arr = "set" => coll[id].v = orig.v

\* the slug without its unique index
SlugTakenNever(slug, self) == FALSE

\* the unique index on Post.slug
SlugTaken(slug, self) ==
    \E p \in DOMAIN posts : p # self /\ posts[p].slug = slug

\* collection with document id added or replaced / removed
Put(coll, id, d) == (id :> d) @@ coll
Without(coll, ids) == [i \in DOMAIN coll \ ids |-> coll[i]]

\* the comments matching { post: p }
CommentsOf(p) == {c \in DOMAIN comments : comments[c].post = p}

\* the count without its isDeleted filter
CountCommentsAll(p) ==
    Cardinality({c \in DOMAIN comments : comments[c].post = p})

\* Comment.countDocuments({ post, isDeleted: false })
CountComments(p) ==
    Cardinality({c \in DOMAIN comments :
                    comments[c].post = p /\ ~comments[c].isDeleted})

\* array.find(like => like.user.toString() === req.user.id)
HasLike(likes, u) == \E i \in 1..Len(likes) : likes[i] = u

\* the filter keeping the entries it should drop
RemoveLikeKeepsOwn(likes, u) == SelectSeq(likes, LAMBDA x : x = u)

\* array.filter(like => like.user.toString() !== req.user.id)
RemoveLike(likes, u) == SelectSeq(likes, LAMBDA x : x # u)

\* likes.find / likes.filter / likes.push of both like handlers: the likes
\* array in memory after the toggle
ToggleLikes(likes, u) ==
    IF HasLike(likes, u) THEN RemoveLike(likes, u) ELSE Append(likes, u)

\* how that toggle changed the array: push() or assignment
ToggleKind(likes, u) == IF HasLike(likes, u) THEN "set" ELSE "push"

\* ------------------------------------------------------------- requests
Free(r) == reqs[r].pc \in {"idle", "done"}

\* auth / optionalAuth: req.user is the User document as read on entry
Accept(r, op, u) ==
    [Idle EXCEPT !.op = op, !.actor = u,
                 !.role = IF u = Anon THEN "none" ELSE users[u].role]

\* the response is sent: the slot keeps what the response says
Done(q, err) ==
    [q EXCEPT !.pc = "done", !.err = err, !.doc = <<>>, !.orig = <<>>,
              !.arr = "none", !.cnt = 0, !.title = <<>>, !.content = <<>>,
              !.category = "", !.status = "", !.body = <<>>]

Set(r, q) == reqs' = [reqs EXCEPT ![r] = q]

StoreSame == UNCHANGED <<users, posts, comments, nextPost, nextComment>>

\* the ownership check letting every logged-in user pass
MayModifyAnyUser(q, owner) == q.actor = owner \/ q.role \in {"admin", "user"}

\* req.user.id !== post.author && req.user.role !== "admin"
MayModify(q, owner) == q.actor = owner \/ q.role = "admin"

\* ------------------------------------------------- GET /api/posts/:id
ReqViewPost(r, u, p) ==
    /\ Free(r) /\ nreq < MaxReqs
    /\ nreq' = nreq + 1
    /\ Set(r, [Accept(r, "viewPost", u) EXCEPT !.pid = p, !.pc = "find"])
    /\ StoreSame

\* the read counting the author's own views too
ViewPostFindCountsAuthor(r) ==
    LET q == reqs[r] IN
    /\ q.op = "viewPost" /\ q.pc = "find"
    /\ IF q.pid \notin DOMAIN posts
       THEN Set(r, Done(q, "NotFound"))
       ELSE LET post == posts[q.pid]
                q1 == [q EXCEPT !.base = post.views]
            IN
            IF post.status # "Published"
               /\ (q.actor = Anon \/ (q.actor # post.author /\ q.role # "admin"))
            THEN Set(r, Done(q1, "NotFound"))
            ELSE IF post.status = "Published"
                 THEN Set(r, [q1 EXCEPT !.pc = "save", !.orig = <<post>>,
                                !.doc = <<[post EXCEPT !.views = @ + 1]>>])
                 ELSE Set(r, Done(q1, "none"))
    /\ UNCHANGED nreq /\ StoreSame

\* the read without its visibility check
ViewPostFindAnyStatus(r) ==
    LET q == reqs[r] IN
    /\ q.op = "viewPost" /\ q.pc = "find"
    /\ IF q.pid \notin DOMAIN posts
       THEN Set(r, Done(q, "NotFound"))
       ELSE LET post == posts[q.pid]
                q1 == [q EXCEPT !.base = post.views]
            IN
            IF post.status = "Published"
               /\ (q.actor = Anon \/ q.actor # post.author)
            THEN Set(r, [q1 EXCEPT !.pc = "save", !.orig = <<post>>,
                           !.doc = <<[post EXCEPT !.views = @ + 1]>>])
            ELSE Set(r, Done(q1, "none"))
    /\ UNCHANGED nreq /\ StoreSame

\* Post.findById, the visibility check and views += 1
ViewPostFind(r) ==
    LET q == reqs[r] IN
    /\ q.op = "viewPost" /\ q.pc = "find"
    /\ IF q.pid \notin DOMAIN posts
       THEN Set(r, Done(q, "NotFound"))
       ELSE LET post == posts[q.pid]
                q1 == [q EXCEPT !.base = post.views]
            IN
            IF post.status # "Published"
               /\ (q.actor = Anon \/ (q.actor # post.author /\ q.role # "admin"))
            THEN Set(r, Done(q1, "NotFound"))
            ELSE IF post.status = "Published"
                    /\ (q.actor = Anon \/ q.actor # post.author)
                 THEN Set(r, [q1 EXCEPT !.pc = "save", !.orig = <<post>>,
                                !.doc = <<[post EXCEPT !.views = @ + 1]>>])
                 ELSE Set(r, Done(q1, "none"))
    /\ UNCHANGED nreq /\ StoreSame

\* await post.save() of the view counter
ViewPostSave(r) ==
    LET q == reqs[r]
        mod == ModifiedPaths(q.doc[1], q.orig[1])
        d == PostPreSave(q.doc[1], mod, Now)
    IN
    /\ q.op = "viewPost" /\ q.pc = "save"
    /\ IF DeltaMatches(posts, q.pid, q.orig[1], q.arr)
       THEN /\ posts' = Put(posts, q.pid, DeltaWrite(posts[q.pid], d, q.orig[1], q.arr))
            /\ Set(r, Done(q, "none"))
       ELSE /\ Set(r, Done(q, "ServerError"))
            /\ UNCHANGED posts
    /\ UNCHANGED <<users, comments, nextPost, nextComment, nreq>>

\* post.save() of the view counter rejects (the store is unreachable): the
\* await is inside the handler's try, so the catch block answers 500
ViewPostSaveFails(r) ==
    LET q == reqs[r] IN
    /\ q.op = "viewPost" /\ q.pc = "save"
    /\ Set(r, Done([q EXCEPT !.fault = TRUE], "ServerError"))
    /\ UNCHANGED nreq /\ StoreSame

\* --------------------------------------------------- POST /api/posts
\* The handler up to await post.save().  A missing or empty title or
\* content is answered 400 at once; the slot then keeps the title and the
\* content the refusal was about.
ReqCreatePost(r, u, title, content, category, status) ==
    /\ Free(r) /\ nreq < MaxReqs
    /\ nextPost + Cardinality({x \in Procs : reqs[x].op = "createPost"
                                              /\ reqs[x].pc = "save"}) < MaxPosts
    /\ nreq' = nreq + 1
    /\ IF title = <<>> \/ content = <<>>
       THEN Set(r, [Done(Accept(r, "createPost", u), "ValidationError") EXCEPT
                      !.title = title, !.content = content])
       ELSE Set(r, [Accept(r, "createPost", u) EXCEPT
                      !.pc = "save", !.title = title, !.content = content,
                      !.category = category, !.status = status,
                      !.doc = <<NewPost(Trim(title), content,
                                        IF category = "" THEN "Other" ELSE category,
                                        IF status = "" THEN "Draft" ELSE status,
                                        u)>>])
    /\ StoreSame

\* await post.save() of the new post: validation, the pre-save hooks, the
\* insert under the unique slug index
CreatePostSave(r) ==
    LET q == reqs[r]
        d == PostPreSave(q.doc[1], NewPostPaths, Now)
        id == nextPost + 1
    IN
    /\ q.op = "createPost" /\ q.pc = "save"
    /\ IF ~PostValid(q.doc[1])
       THEN /\ Set(r, Done(q, "ValidationError"))
            /\ UNCHANGED <<posts, nextPost>>
       ELSE IF SlugTaken(d.slug, id)
            THEN /\ Set(r, Done(q, "ServerError"))
                 /\ UNCHANGED <<posts, nextPost>>
            ELSE /\ posts' = Put(posts, id, d)
                 /\ nextPost' = id
                 /\ Set(r, Done([q EXCEPT !.pid = id], "none"))
    /\ UNCHANGED <<users, comments, nextComment, nreq>>

\* ------------------------------------------------ PUT /api/posts/:id
ReqUpdatePost(r, u, p, title, content, category, status) ==
    /\ Free(r) /\ nreq < MaxReqs
    /\ nreq' = nreq + 1
    /\ Set(r, [Accept(r, "updatePost", u) EXCEPT
                 !.pid = p, !.pc = "find", !.title = title, !.content = content,
                 !.category = category, !.status = status])
    /\ StoreSame

\* Post.findById, the ownership check and the field assignments
UpdatePostFind(r) ==
    LET q == reqs[r] IN
    /\ q.op = "updatePost" /\ q.pc = "find"
    /\ IF q.pid \notin DOMAIN posts
       THEN Set(r, Done(q, "NotFound"))
       ELSE LET post == posts[q.pid]
                d0 == IF q.title # <<>> THEN [post EXCEPT !.title = Trim(q.title)]
                      ELSE post
                dc == IF q.content # <<>> THEN [d0 EXCEPT !.content = q.content]
                      ELSE d0
                d1 == IF q.category # "" THEN [dc EXCEPT !.category = q.category]
                      ELSE dc
                d2 == IF q.status # "" THEN [d1 EXCEPT !.status = q.status] ELSE d1
            IN  IF ~MayModify(q, post.author)
                THEN Set(r, Done(q, "Forbidden"))
                ELSE Set(r, [q EXCEPT !.pc = "save", !.orig = <<post>>, !.doc = <<d2>>,
                                      !.was = post.status])
    /\ UNCHANGED nreq /\ StoreSame

\* await post.save() of the update
UpdatePostSave(r) ==
    LET q == reqs[r]
        mod == ModifiedPaths(q.doc[1], q.orig[1])
        d == PostPreSave(q.doc[1], mod, Now)
    IN
    /\ q.op = "updatePost" /\ q.pc = "save"
    /\ IF ~PostValid(q.doc[1])
       THEN /\ Set(r, Done(q, "ValidationError"))
            /\ UNCHANGED posts
       ELSE IF ~DeltaMatches(posts, q.pid, q.orig[1], q.arr)
               \/ (d.slug # q.orig[1].slug /\ SlugTaken(d.slug, q.pid))
            THEN /\ Set(r, Done(q, "ServerError"))
                 /\ UNCHANGED posts
            ELSE /\ posts' = Put(posts, q.pid,
                                 DeltaWrite(posts[q.pid], d, q.orig[1], q.arr))
                 /\ Set(r, Done(q, "none"))
    /\ UNCHANGED <<users, comments, nextPost, nextComment, nreq>>

\* --------------------------------------------- DELETE /api/posts/:id
\* retry records that the same actor repeats a delete whose removal of the
\* post failed after its comments were removed.
ReqDeletePost(r, u, p) ==
    /\ Free(r) /\ nreq < MaxReqs
    /\ nreq' = nreq + 1
    /\ Set(r, [Accept(r, "deletePost", u) EXCEPT
                 !.pid = p, !.pc = "find",
                 !.retry = (reqs[r].op = "deletePost" /\ reqs[r].pid = p
                            /\ reqs[r].actor = u /\ reqs[r].fault
                            /\ reqs[r].pc = "done")])
    /\ StoreSame

\* Post.findById and the ownership check
DeletePostFind(r) ==
    LET q == reqs[r] IN
    /\ q.op = "deletePost" /\ q.pc = "find"
    /\ IF q.pid \notin DOMAIN posts
       THEN Set(r, Done(q, "NotFound"))
       ELSE IF ~MayModify(q, posts[q.pid].author)
            THEN Set(r, Done(q, "Forbidden"))
            ELSE Set(r, [q EXCEPT !.pc = "deleteMany"])
    /\ UNCHANGED nreq /\ StoreSame

\* the cascade removing only the top-level comments of the post
DeletePostCommentsTopLevel(r) ==
    LET q == reqs[r] IN
    /\ q.op = "deletePost" /\ q.pc = "deleteMany"
    /\ comments' = Without(comments, {c \in DOMAIN comments :
                                        /\ comments[c].post = q.pid
                                        /\ comments[c].parentComment = 0})
    /\ Set(r, [q EXCEPT !.pc = "deletePost"])
    /\ UNCHANGED <<users, posts, nextPost, nextComment, nreq>>

\* the cascade treating a deleteMany that removed nothing as a failure
DeletePostCommentsStrict(r) ==
    LET q == reqs[r] IN
    /\ q.op = "deletePost" /\ q.pc = "deleteMany"
    /\ IF CommentsOf(q.pid) = {}
       THEN /\ Set(r, Done(q, "ServerError"))
            /\ UNCHANGED comments
       ELSE /\ comments' = Without(comments, CommentsOf(q.pid))
            /\ Set(r, [q EXCEPT !.pc = "deletePost"])
    /\ UNCHANGED <<users, posts, nextPost, nextComment, nreq>>

\* await Comment.deleteMany({ post: post._id })
DeletePostComments(r) ==
    LET q == reqs[r] IN
    /\ q.op = "deletePost" /\ q.pc = "deleteMany"
    /\ comments' = Without(comments, CommentsOf(q.pid))
    /\ Set(r, [q EXCEPT !.pc = "deletePost"])
    /\ UNCHANGED <<users, posts, nextPost, nextComment, nreq>>

\* await Post.findByIdAndDelete(req.params.id)
DeletePostRemove(r) ==
    LET q == reqs[r] IN
    /\ q.op = "deletePost" /\ q.pc = "deletePost"
    /\ posts' = Without(posts, {q.pid})
    /\ Set(r, Done(q, "none"))
    /\ UNCHANGED <<users, comments, nextPost, nextComment, nreq>>

\* Post.findByIdAndDelete rejects (the store is unreachable): the catch
\* block answers 500, nothing is undone
DeletePostRemoveFails(r) ==
    LET q == reqs[r] IN
    /\ q.op = "deletePost" /\ q.pc = "deletePost"
    /\ Set(r, Done([q EXCEPT !.fault = TRUE], "ServerError"))
    /\ UNCHANGED nreq /\ StoreSame

\* ------------------------------------------ POST /api/posts/:id/like
ReqLikePost(r, u, p) ==
    /\ Free(r) /\ nreq < MaxReqs
    /\ nreq' = nreq + 1
    /\ Set(r, [Accept(r, "likePost", u) EXCEPT
                 !.pid = p, !.pc = "find",
                 !.carry = IF reqs[r].pc = "done" /\ reqs[r].op = "likePost"
                              /\ reqs[r].err = "none" /\ reqs[r].pid = p
                              /\ reqs[r].actor = u
                           THEN <<[base |-> reqs[r].base, liked |-> reqs[r].liked]>>
                           ELSE <<>>])
    /\ StoreSame

\* Post.findById and the toggle of the likes array in memory
LikePostFind(r) ==
    LET q == reqs[r] IN
    /\ q.op = "likePost" /\ q.pc = "find"
    /\ IF q.pid \notin DOMAIN posts
       THEN Set(r, Done(q, "NotFound"))
       ELSE LET post == posts[q.pid] IN
            Set(r, [q EXCEPT !.pc = "save", !.orig = <<post>>,
                      !.doc = <<[post EXCEPT !.likes = ToggleLikes(post.likes, q.actor)]>>,
                      !.arr = ToggleKind(post.likes, q.actor),
                      !.liked = ~HasLike(post.likes, q.actor),
                      !.ver = post.v, !.base = post.likesCount])
    /\ UNCHANGED nreq /\ StoreSame

\* await post.save() of the toggled likes; the response carries the
\* likesCount of the document in memory
LikePostSave(r) ==
    LET q == reqs[r]
        mod == ModifiedPaths(q.doc[1], q.orig[1])
        d == PostPreSave(q.doc[1], mod, Now)
    IN
    /\ q.op = "likePost" /\ q.pc = "save"
    /\ IF DeltaMatches(posts, q.pid, q.orig[1], q.arr)
       THEN /\ posts' = Put(posts, q.pid, DeltaWrite(posts[q.pid], d, q.orig[1], q.arr))
            /\ Set(r, Done([q EXCEPT !.count = d.likesCount], "none"))
       ELSE /\ Set(r, Done([q EXCEPT !.liked = FALSE], "ServerError"))
            /\ UNCHANGED posts
    /\ UNCHANGED <<users, comments, nextPost, nextComment, nreq>>

\* ------------------------------------------- the comment's post-save hook
\* commentSchema.post("save"), first await: countDocuments of the post's
\* comments that are not deleted
\* the hook keeping a running total: one more than the post's stored count
SyncCountIncrement(r) ==
    LET q == reqs[r]
        p == q.doc[1].post
    IN
    /\ q.pc = "count"
    /\ Set(r, [q EXCEPT !.pc = "sync",
                         !.cnt = IF p \in DOMAIN posts
                                 THEN posts[p].commentsCount + 1 ELSE 0,
                         !.seen = IF p \in DOMAIN posts
                                  THEN <<posts[p]>> ELSE <<>>])
    /\ UNCHANGED nreq /\ StoreSame

SyncCount(r) ==
    LET q == reqs[r] IN
    /\ q.pc = "count"
    /\ Set(r, [q EXCEPT !.pc = "sync", !.cnt = CountComments(q.doc[1].post),
                         !.seen = IF q.doc[1].post \in DOMAIN posts
                                  THEN <<posts[q.doc[1].post]>> ELSE <<>>])
    /\ UNCHANGED nreq /\ StoreSame

\* whether the stored post p differs, in a field other than commentsCount,
\* from what it was when the hook counted
Raced(seen, p) ==
    /\ seen # <<>> /\ p \in DOMAIN posts
    /\ \E f \in DOMAIN posts[p] \ {"commentsCount"} : posts[p][f] # seen[1][f]

\* the hook writing back the post as it was when the hook counted, with the
\* new commentsCount (a save of the whole document)
SyncWriteWhole(r) ==
    LET q == reqs[r]
        p == q.doc[1].post
        q1 == [q EXCEPT !.seen = <<>>, !.raced = Raced(q.seen, p)]
    IN
    /\ q.pc = "sync"
    /\ posts' = IF p \in DOMAIN posts /\ q.seen # <<>>
                THEN Put(posts, p, [q.seen[1] EXCEPT !.commentsCount = q.cnt])
                ELSE posts
    /\ IF q.op = "createComment" /\ q.parent # 0
       THEN Set(r, [q1 EXCEPT !.pc = "link"])
       ELSE Set(r, Done(q1, "none"))
    /\ UNCHANGED <<users, comments, nextPost, nextComment, nreq>>

\* commentSchema.post("save"), second await: Post.findByIdAndUpdate writes
\* commentsCount (and nothing when the post is gone); save() then resolves
\* and the handler goes on
SyncWrite(r) ==
    LET q == reqs[r]
        p == q.doc[1].post
        q1 == [q EXCEPT !.seen = <<>>, !.raced = Raced(q.seen, p)]
    IN
    /\ q.pc = "sync"
    /\ posts' = IF p \in DOMAIN posts
                THEN Put(posts, p, [posts[p] EXCEPT !.commentsCount = q.cnt])
                ELSE posts
    /\ IF q.op = "createComment" /\ q.parent # 0
       THEN Set(r, [q1 EXCEPT !.pc = "link"])
       ELSE Set(r, Done(q1, "none"))
    /\ UNCHANGED <<users, comments, nextPost, nextComment, nreq>>

\* schema validators of the comment path
CommentValid(doc) == Len(doc.comment) >= 1 /\ Len(doc.comment) <= CommentMaxLen

\* await comment.save() of a loaded comment, common to edit, soft delete
\* and like: pre-save hook, delta update, then the post-save hook is due
SaveComment(r, q) ==
    LET mod == ModifiedPaths(q.doc[1], q.orig[1])
        d == CommentPreSave(q.doc[1], mod, FALSE, Now)
    IN
    /\ IF ~CommentValid(q.doc[1])
       THEN /\ Set(r, Done(q, "ValidationError"))
            /\ UNCHANGED comments
       ELSE IF ~DeltaMatches(comments, q.cid, q.orig[1], q.arr)
            THEN /\ Set(r, Done([q EXCEPT !.liked = FALSE], "ServerError"))
                 /\ UNCHANGED comments
            ELSE /\ comments' = Put(comments, q.cid,
                                    DeltaWrite(comments[q.cid], d, q.orig[1], q.arr))
                 /\ Set(r, [q EXCEPT !.pc = "count", !.doc = <<d>>,
                                     !.count = d.likesCount])
    /\ UNCHANGED <<users, posts, nextPost, nextComment, nreq>>

\* ------------------------------------------ POST /api/comments/:postId
ReqCreateComment(r, u, p, body, parent) ==
    /\ Free(r) /\ nreq < MaxReqs
    /\ nextComment + Cardinality({x \in Procs : reqs[x].op = "createComment"
                                    /\ reqs[x].pc \in {"find", "parent", "save"}})
          < MaxComments
    /\ nreq' = nreq + 1
    /\ IF Trim(body) = <<>>
       THEN Set(r, Done(Accept(r, "createComment", u), "ValidationError"))
       ELSE Set(r, [Accept(r, "createComment", u) EXCEPT
                      !.pid = p, !.pc = "find", !.body = body, !.parent = parent])
    /\ StoreSame

\* the create handler without its status check
CreateCommentFindPostAnyStatus(r) ==
    LET q == reqs[r] IN
    /\ q.op = "createComment" /\ q.pc = "find"
    /\ IF q.pid \notin DOMAIN posts
       THEN Set(r, Done(q, "NotFound"))
       ELSE Set(r, [q EXCEPT
                      !.pc = IF q.parent # 0 THEN "parent" ELSE "save",
                      !.doc = <<NewComment(Trim(q.body), q.pid, q.actor, q.parent)>>])
    /\ UNCHANGED nreq /\ StoreSame

\* Post.findById and the status check
CreateCommentFindPost(r) ==
    LET q == reqs[r] IN
    /\ q.op = "createComment" /\ q.pc = "find"
    /\ IF q.pid \notin DOMAIN posts
       THEN Set(r, Done(q, "NotFound"))
       ELSE IF posts[q.pid].status # "Published"
            THEN Set(r, Done(q, "InvalidState"))
            ELSE Set(r, [q EXCEPT
                           !.pc = IF q.parent # 0 THEN "parent" ELSE "save",
                           !.doc = <<NewComment(Trim(q.body), q.pid, q.actor, q.parent)>>])
    /\ UNCHANGED nreq /\ StoreSame

\* the parent check accepting a parent of any post
CreateCommentFindParentAnyPost(r) ==
    LET q == reqs[r] IN
    /\ q.op = "createComment" /\ q.pc = "parent"
    /\ IF q.parent \notin DOMAIN comments
       THEN Set(r, Done(q, "InvalidParent"))
       ELSE Set(r, [q EXCEPT !.pc = "save"])
    /\ UNCHANGED nreq /\ StoreSame

\* Comment.findById(parentComment) and the parent check
CreateCommentFindParent(r) ==
    LET q == reqs[r] IN
    /\ q.op = "createComment" /\ q.pc = "parent"
    /\ IF q.parent \notin DOMAIN comments \/ comments[q.parent].post # q.pid
       THEN Set(r, Done(q, "InvalidParent"))
       ELSE Set(r, [q EXCEPT !.pc = "save"])
    /\ UNCHANGED nreq /\ StoreSame

\* await newComment.save(): validation, pre-save hook, insert
CreateCommentSave(r) ==
    LET q == reqs[r]
        d == [CommentPreSave(q.doc[1], {"comment", "post", "userId", "parentComment"},
                             TRUE, Now) EXCEPT !.createdAt = Now]
        id == nextComment + 1
    IN
    /\ q.op = "createComment" /\ q.pc = "save"
    /\ IF ~CommentValid(q.doc[1])
       THEN /\ Set(r, Done(q, "ValidationError"))
            /\ UNCHANGED <<comments, nextComment>>
       ELSE /\ comments' = Put(comments, id, d)
            /\ nextComment' = id
            /\ Set(r, [q EXCEPT !.pc = "count", !.cid = id, !.doc = <<d>>])
    /\ UNCHANGED <<users, posts, nextPost, nreq>>

\* Comment.findByIdAndUpdate(parentComment, { $push: { replies } })
CreateCommentLink(r) ==
    LET q == reqs[r] IN
    /\ q.op = "createComment" /\ q.pc = "link"
    /\ comments' = IF q.parent \in DOMAIN comments
                   THEN Put(comments, q.parent,
                            [comments[q.parent] EXCEPT !.replies = Append(@, q.cid)])
                   ELSE comments
    /\ Set(r, Done(q, "none"))
    /\ UNCHANGED <<users, posts, nextPost, nextComment, nreq>>

\* Comment.findByIdAndUpdate of the parent rejects (the store is
\* unreachable): the reply is stored already, the catch block answers 500
CreateCommentLinkFails(r) ==
    LET q == reqs[r] IN
    /\ q.op = "createComment" /\ q.pc = "link"
    /\ Set(r, Done([q EXCEPT !.fault = TRUE], "ServerError"))
    /\ UNCHANGED nreq /\ StoreSame

\* --------------------------------------- PUT /api/comments/:commentId
ReqEditComment(r, u, c, body) ==
    /\ Free(r) /\ nreq < MaxReqs
    /\ nreq' = nreq + 1
    /\ IF Trim(body) = <<>>
       THEN Set(r, Done(Accept(r, "editComment", u), "ValidationError"))
       ELSE Set(r, [Accept(r, "editComment", u) EXCEPT
                      !.cid = c, !.pc = "find", !.body = body])
    /\ StoreSame

\* Comment.findById, the deleted and ownership checks, the assignment
EditCommentFind(r) ==
    LET q == reqs[r] IN
    /\ q.op = "editComment" /\ q.pc = "find"
    /\ IF q.cid \notin DOMAIN comments
       THEN Set(r, Done(q, "NotFound"))
       ELSE LET c == comments[q.cid] IN
            IF c.isDeleted
            THEN Set(r, Done(q, "InvalidState"))
            ELSE IF c.userId # q.actor
                 THEN Set(r, Done(q, "Forbidden"))
                 ELSE Set(r, [q EXCEPT !.pc = "save", !.orig = <<c>>,
                                !.doc = <<[c EXCEPT !.comment = Trim(q.body)]>>])
    /\ UNCHANGED nreq /\ StoreSame

EditCommentSave(r) ==
    /\ reqs[r].op = "editComment" /\ reqs[r].pc = "save"
    /\ SaveComment(r, reqs[r])

\* ------------------------------------ DELETE /api/comments/:commentId
ReqSoftDelete(r, u, c) ==
    /\ Free(r) /\ nreq < MaxReqs
    /\ nreq' = nreq + 1
    /\ Set(r, [Accept(r, "softDelete", u) EXCEPT !.cid = c, !.pc = "find"])
    /\ StoreSame

\* the soft delete that marks the comment and keeps its body
SoftDeleteFindKeepsBody(r) ==
    LET q == reqs[r] IN
    /\ q.op = "softDelete" /\ q.pc = "find"
    /\ IF q.cid \notin DOMAIN comments
       THEN Set(r, Done(q, "NotFound"))
       ELSE LET c == comments[q.cid] IN
            IF ~MayModify(q, c.userId)
            THEN Set(r, Done(q, "Forbidden"))
            ELSE Set(r, [q EXCEPT !.pc = "save", !.orig = <<c>>,
                           !.doc = <<[c EXCEPT !.isDeleted = TRUE,
                                               !.deletedAt = Now]>>,
                           !.was = IF c.isDeleted THEN "deleted" ELSE "live",
                           !.base = IF c.post \in DOMAIN posts
                                    THEN posts[c.post].commentsCount ELSE 0])
    /\ UNCHANGED nreq /\ StoreSame

\* Comment.findById, the ownership check, the soft-delete assignments
SoftDeleteFind(r) ==
    LET q == reqs[r] IN
    /\ q.op = "softDelete" /\ q.pc = "find"
    /\ IF q.cid \notin DOMAIN comments
       THEN Set(r, Done(q, "NotFound"))
       ELSE LET c == comments[q.cid] IN
            IF ~MayModify(q, c.userId)
            THEN Set(r, Done(q, "Forbidden"))
            ELSE Set(r, [q EXCEPT !.pc = "save", !.orig = <<c>>,
                           !.doc = <<[c EXCEPT !.isDeleted = TRUE,
                                               !.deletedAt = Now,
                                               !.comment = Placeholder]>>,
                           !.was = IF c.isDeleted THEN "deleted" ELSE "live",
                           !.base = IF c.post \in DOMAIN posts
                                    THEN posts[c.post].commentsCount ELSE 0])
    /\ UNCHANGED nreq /\ StoreSame

SoftDeleteSave(r) ==
    /\ reqs[r].op = "softDelete" /\ reqs[r].pc = "save"
    /\ SaveComment(r, reqs[r])

\* ---------------------------------- POST /api/comments/:commentId/like
ReqLikeComment(r, u, c) ==
    /\ Free(r) /\ nreq < MaxReqs
    /\ nreq' = nreq + 1
    /\ Set(r, [Accept(r, "likeComment", u) EXCEPT
                 !.cid = c, !.pc = "find",
                 !.carry = IF reqs[r].pc = "done" /\ reqs[r].op = "likeComment"
                              /\ reqs[r].err = "none" /\ reqs[r].cid = c
                              /\ reqs[r].actor = u
                           THEN <<[base |-> reqs[r].base, liked |-> reqs[r].liked]>>
                           ELSE <<>>])
    /\ StoreSame

\* Comment.findById, the deleted check, the toggle of likes in memory
LikeCommentFind(r) ==
    LET q == reqs[r] IN
    /\ q.op = "likeComment" /\ q.pc = "find"
    /\ IF q.cid \notin DOMAIN comments
       THEN Set(r, Done(q, "NotFound"))
       ELSE LET c == comments[q.cid] IN
            IF c.isDeleted
            THEN Set(r, Done(q, "InvalidState"))
            ELSE Set(r, [q EXCEPT !.pc = "save", !.orig = <<c>>,
                           !.doc = <<[c EXCEPT !.likes = ToggleLikes(c.likes, q.actor)]>>,
                           !.arr = ToggleKind(c.likes, q.actor),
                           !.liked = ~HasLike(c.likes, q.actor),
                           !.ver = c.v, !.base = c.likesCount])
    /\ UNCHANGED nreq /\ StoreSame

LikeCommentSave(r) ==
    /\ reqs[r].op = "likeComment" /\ reqs[r].pc = "save"
    /\ SaveComment(r, reqs[r])

\* ------------------------------------------- GET /api/comments/:postId
\* the route has no auth middleware
ReqListComments(r, p, page, limit) ==
    /\ Free(r) /\ nreq < MaxReqs
    /\ nreq' = nreq + 1
    /\ Set(r, [Accept(r, "listComments", Anon) EXCEPT
                 !.pid = p, !.pc = "find",
                 !.page = IF page = 0 THEN 1 ELSE page,
                 !.limit = IF limit = 0 THEN ListLimitDefault ELSE limit])
    /\ StoreSame

\* Post.findById
ListFindPost(r) ==
    LET q == reqs[r] IN
    /\ q.op = "listComments" /\ q.pc = "find"
    /\ IF q.pid \notin DOMAIN posts
       THEN Set(r, Done(q, "NotFound"))
       ELSE Set(r, [q EXCEPT !.pc = "query"])
    /\ UNCHANGED nreq /\ StoreSame

\* the filter { post, isDeleted: false, parentComment: null }
TopLevelLive(p) ==
    {c \in DOMAIN comments :
        /\ comments[c].post = p /\ ~comments[c].isDeleted
        /\ comments[c].parentComment = 0}

\* .sort({ createdAt: -1 }); comments of the same time in id order
RECURSIVE NewestFirst(_)
NewestFirst(cs) ==
    IF cs = {} THEN <<>>
    ELSE LET m == CHOOSE c \in cs :
                     \A d \in cs :
                        \/ comments[c].createdAt > comments[d].createdAt
                        \/ comments[c].createdAt = comments[d].createdAt /\ c <= d
         IN  <<m>> \o NewestFirst(cs \ {m})

\* .skip(skip).limit(limit)
SkipLimit(s, skip, limit) ==
    SubSeq(s, skip + 1, IF skip + limit < Len(s) THEN skip + limit ELSE Len(s))

\* populate of replies without its match
PopulateRepliesAll(c) ==
    SelectSeq(comments[c].replies, LAMBDA x : x \in DOMAIN comments)

\* populate({ path: "replies", match: { isDeleted: false } })
PopulateReplies(c) ==
    SelectSeq(comments[c].replies,
              LAMBDA x : x \in DOMAIN comments /\ ~comments[x].isDeleted)

\* await Comment.find(...).populate(...).sort(...).skip(...).limit(...)
ListQuery(r) ==
    LET q == reqs[r]
        found == SkipLimit(NewestFirst(TopLevelLive(q.pid)),
                           (q.page - 1) * q.limit, q.limit)
    IN
    /\ q.op = "listComments" /\ q.pc = "query"
    /\ Set(r, [q EXCEPT !.pc = "total",
                         !.list = [i \in 1..Len(found) |->
                                     [id |-> found[i],
                                      replies |-> PopulateReplies(found[i])]]])
    /\ UNCHANGED nreq /\ StoreSame

\* await Comment.countDocuments(...) and the response
ListTotal(r) ==
    LET q == reqs[r] IN
    /\ q.op = "listComments" /\ q.pc = "total"
    /\ Set(r, Done([q EXCEPT !.total = Cardinality(TopLevelLive(q.pid))], "none"))
    /\ UNCHANGED nreq /\ StoreSame

\* ------------------------------------------------ PUT /api/users/:id/role
\* auth reads the caller's user document, adminOnly tests its role, the
\* handler tests the role asked for and that the id is not the caller's own;
\* target and newRole are the id and the role of the request
ReqSetRole(r, u, id, role) ==
    /\ Free(r) /\ nreq < MaxReqs
    /\ nreq' = nreq + 1
    /\ LET q == [Accept(r, "setRole", u) EXCEPT !.target = id, !.newRole = role] IN
       IF q.role # "admin"
       THEN Set(r, Done(q, "Forbidden"))
       ELSE IF role \notin {"user", "admin"}
            THEN Set(r, Done(q, "ValidationError"))
            ELSE IF id = u
                 THEN Set(r, Done(q, "InvalidState"))
                 ELSE Set(r, [q EXCEPT !.pc = "write"])
    /\ StoreSame

\* await User.findByIdAndUpdate(id, { role })
SetRoleWrite(r) ==
    LET q == reqs[r] IN
    /\ q.op = "setRole" /\ q.pc = "write"
    /\ IF q.target \in DOMAIN users
       THEN /\ users' = [users EXCEPT ![q.target].role = q.newRole]
            /\ Set(r, Done(q, "none"))
       ELSE /\ Set(r, Done(q, "NotFound"))
            /\ UNCHANGED users
    /\ UNCHANGED <<posts, comments, nextPost, nextComment, nreq>>

\* ------------------------------------------------------------ behaviours
\* every step a request in flight can take once it is accepted
Steps(r) ==
    \/ ViewPostFind(r) \/ ViewPostSave(r)
    \/ CreatePostSave(r)
    \/ UpdatePostFind(r) \/ UpdatePostSave(r)
    \/ DeletePostFind(r) \/ DeletePostComments(r) \/ DeletePostRemove(r)
    \/ LikePostFind(r) \/ LikePostSave(r)
    \/ CreateCommentFindPost(r) \/ CreateCommentFindParent(r)
    \/ CreateCommentSave(r) \/ CreateCommentLink(r)
    \/ EditCommentFind(r) \/ EditCommentSave(r)
    \/ SoftDeleteFind(r) \/ SoftDeleteSave(r)
    \/ LikeCommentFind(r) \/ LikeCommentSave(r)
    \/ SyncCount(r) \/ SyncWrite(r)

\* request inputs
TitleH == <<"h">>
TitleA == <<"a">>
BodyHi == <<"h">>
BodyYo == <<"o">>
ContentOk == Repeat("a", ContentMinLen)
StatusBogus == "Bogus"

\* ------------------------------------------------- scripts/seed.js
\* the sample users in the order of createdUsers, the first being the admin
SeedUsers == <<"john", "jane", "mike", "sarah">>

\* the sample posts: a title standing for each of the five different
\* titles, the author, the status and the views given
SeedPosts ==
    <<[title |-> <<"h">>, author |-> SeedUsers[1], status |-> "Published", views |-> 245],
      [title |-> <<"e">>, author |-> SeedUsers[3], status |-> "Published", views |-> 189],
      [title |-> <<"l">>, author |-> SeedUsers[2], status |-> "Published", views |-> 156],
      [title |-> <<"o">>, author |-> SeedUsers[4], status |-> "Published", views |-> 98],
      [title |-> <<"d">>, author |-> SeedUsers[1], status |-> "Draft", views |-> 0]>>

\* the sample comments: the post and the user of each
SeedComments ==
    <<[post |-> 1, userId |-> SeedUsers[2]], [post |-> 1, userId |-> SeedUsers[3]],
      [post |-> 1, userId |-> SeedUsers[4]], [post |-> 2, userId |-> SeedUsers[1]],
      [post |-> 2, userId |-> SeedUsers[2]], [post |-> 3, userId |-> SeedUsers[4]],
      [post |-> 3, userId |-> SeedUsers[1]], [post |-> 4, userId |-> SeedUsers[2]]>>

\* the sample likes: the post and the users of each findByIdAndUpdate
SeedLikes ==
    <<[post |-> 1, users |-> <<SeedUsers[2], SeedUsers[3], SeedUsers[4]>>],
      [post |-> 2, users |-> <<SeedUsers[1], SeedUsers[4]>>],
      [post |-> 3, users |-> SeedUsers]>>

\* deleteMany of the three collections and User.create(users); the slot
\* holds the position of the script
SeedClear(r) ==
    /\ reqs[r].pc = "idle"
    /\ users' = [u \in {SeedUsers[i] : i \in 1..Len(SeedUsers)} |->
                    [role |-> IF u = SeedUsers[1] THEN "admin" ELSE "user",
                     isActive |-> TRUE]]
    /\ posts' = <<>> /\ comments' = <<>>
    /\ Set(r, [Idle EXCEPT !.op = "seed", !.pc = "posts"])
    /\ UNCHANGED <<nextPost, nextComment, nreq>>

\* Post.create(posts): every document saved with its hooks; then
\* Comment.create(comments) builds its documents, whose saves are started
\* together (hooks holds how far the save of each has come)
SeedCreatePosts(r) ==
    LET q == reqs[r]
        doc(i) == PostPreSave([NewPost(SeedPosts[i].title, ContentOk, "Other",
                                       SeedPosts[i].status, SeedPosts[i].author)
                                 EXCEPT !.views = SeedPosts[i].views],
                              NewPostPaths \cup {"views"}, Now)
    IN
    /\ q.op = "seed" /\ q.pc = "posts"
    /\ posts' = [i \in 1..Len(SeedPosts) |-> doc(i)]
    /\ nextPost' = Len(SeedPosts)
    /\ Set(r, [q EXCEPT !.pc = "comments",
                         !.hooks = [i \in 1..Len(SeedComments) |->
                                      [pc |-> "save", cnt |-> 0]]])
    /\ UNCHANGED <<users, comments, nextComment, nreq>>

\* save() of the i-th sample comment: the insert
SeedCommentSave(r, i) ==
    LET q == reqs[r]
        d == [CommentPreSave(NewComment(BodyHi, SeedComments[i].post,
                                        SeedComments[i].userId, 0),
                             {"comment", "post", "userId"}, TRUE, Now)
                EXCEPT !.createdAt = Now]
    IN
    /\ q.op = "seed" /\ q.pc = "comments" /\ q.hooks[i].pc = "save"
    /\ comments' = Put(comments, i, d)
    /\ nextComment' = IF i > nextComment THEN i ELSE nextComment
    /\ Set(r, [q EXCEPT !.hooks[i].pc = "count"])
    /\ UNCHANGED <<users, posts, nextPost, nreq>>

\* commentSchema.post("save") of the i-th sample comment, first await
SeedCommentCount(r, i) ==
    LET q == reqs[r] IN
    /\ q.op = "seed" /\ q.pc = "comments" /\ q.hooks[i].pc = "count"
    /\ Set(r, [q EXCEPT !.hooks[i] = [pc |-> "sync",
                                       cnt |-> CountComments(SeedComments[i].post)]])
    /\ UNCHANGED nreq /\ StoreSame

\* commentSchema.post("save") of the i-th sample comment, second await; with
\* the last of them Comment.create resolves
SeedCommentWrite(r, i) ==
    LET q == reqs[r]
        post == SeedComments[i].post
        h == [q.hooks EXCEPT ![i] = [pc |-> "done", cnt |-> 0]]
    IN
    /\ q.op = "seed" /\ q.pc = "comments" /\ q.hooks[i].pc = "sync"
    /\ posts' = [posts EXCEPT ![post].commentsCount = q.hooks[i].cnt]
    /\ Set(r, [q EXCEPT !.hooks = h,
                         !.pc = IF \A j \in DOMAIN h : h[j].pc = "done"
                                THEN "likes" ELSE "comments"])
    /\ UNCHANGED <<users, comments, nextPost, nextComment, nreq>>

\* the next Post.findByIdAndUpdate(id, { $push: { likes: [...] } }): the
\* entries are appended in the store, no save hook runs; after the last
\* the script exits
SeedPushLikes(r) ==
    LET q == reqs[r]
        k == q.step + 1
        post == SeedLikes[k].post
    IN
    /\ q.op = "seed" /\ q.pc = "likes"
    /\ posts' = [posts EXCEPT ![post].likes = @ \o SeedLikes[k].users]
    /\ Set(r, IF k = Len(SeedLikes)
               THEN [q EXCEPT !.pc = "done", !.step = k, !.hooks = <<>>]
               ELSE [q EXCEPT !.step = k])
    /\ UNCHANGED <<users, comments, nextPost, nextComment, nreq>>

\* the requests of the engagement behaviours: two titles with different
\* slugs, posts created as drafts or published, ann and bob as ordinary
\* users, root as admin, posts viewed by ann, bob and without a login,
\* updates to every status and to a value that is none
Engage(r) ==
    \/ \E u \in {"ann", "bob", Anon}, p \in PostIds : ReqViewPost(r, u, p)
    \/ \E u \in {"ann"}, t \in {TitleH, TitleA}, st \in {"", "Published"} :
          ReqCreatePost(r, u, t, ContentOk, "", st)
    \/ \E u \in {"ann", "bob"}, p \in PostIds, st \in Statuses \cup {StatusBogus} :
          ReqUpdatePost(r, u, p, <<>>, <<>>, "", st)
    \/ \E u \in {"ann", "bob", "root"}, p \in PostIds : ReqDeletePost(r, u, p)
    \/ \E u \in {"ann", "bob"}, p \in PostIds : ReqLikePost(r, u, p)
    \/ \E u \in {"ann", "bob"}, p \in PostIds, parent \in {0} \cup CommentIds :
          ReqCreateComment(r, u, p, BodyHi, parent)
    \/ \E u \in {"ann", "bob", "root"}, c \in CommentIds, b \in {BodyHi, BodyYo} :
          ReqEditComment(r, u, c, b)
    \/ \E u \in {"ann", "bob", "root"}, c \in CommentIds : ReqSoftDelete(r, u, c)
    \/ \E u \in {"ann", "bob"}, c \in CommentIds : ReqLikeComment(r, u, c)

\* requests executed one at a time: a single slot
SeqNext ==
    \/ Engage("r1") \/ Steps("r1")
    \/ DeletePostRemoveFails("r1") \/ ViewPostSaveFails("r1")

SpecSeq == Init /\ [][SeqNext]_vars

\* the requests of the interleaved behaviours: ann publishes posts, and on
\* the first of them ann archives and deletes, bob views, ann and bob like,
\* bob comments; bob edits and deletes comments, ann likes them
Race(r) ==
    \/ ReqCreatePost(r, "ann", TitleH, ContentOk, "", "Published")
    \/ ReqViewPost(r, "bob", 1)
    \/ ReqUpdatePost(r, "ann", 1, <<>>, <<>>, "", "Archived")
    \/ ReqDeletePost(r, "ann", 1)
    \/ \E u \in {"ann", "bob"} : ReqLikePost(r, u, 1)
    \/ \E parent \in {0, 1} : ReqCreateComment(r, "bob", 1, BodyHi, parent)
    \/ \E c \in CommentIds : ReqEditComment(r, "bob", c, BodyYo)
    \/ \E c \in CommentIds : ReqSoftDelete(r, "bob", c)
    \/ \E c \in CommentIds : ReqLikeComment(r, "ann", c)

\* requests interleaved at their awaits
Next == \E r \in Procs : Race(r) \/ Steps(r)

Spec == Init /\ [][Next]_vars

\* titles of the slug behaviours: the example of the documentation, a title
\* without letters or digits, a title with blanks around and inside, a
\* title longer than the slug, a blank title
TitleHello == <<"H", "e", "l", "l", "o", " ", "W", "o", "r", "l", "d", "!">>
TitleBang == <<"!", "!">>
TitleSpaced == <<" ", "a", " ", " ", "1", "-", "d", " ">>
TitleLong == Repeat("a", SlugMaxLen + 1) \o <<"h">>
TitleBlank == <<" ">>
SlugTitles == {TitleHello, TitleBang, TitleSpaced, TitleLong, TitleBlank}

\* post create and update requests one at a time, over those titles
SlugNext ==
    \/ \E t \in SlugTitles \cup {<<>>}, st \in {"", "Published"} :
          ReqCreatePost("r1", "ann", t, ContentOk, "", st)
    \/ \E u \in {"ann", "bob"}, p \in PostIds, t \in SlugTitles \cup {<<>>},
          st \in {"", "Archived"} :
          ReqUpdatePost("r1", u, p, t, <<>>, "", st)
    \/ CreatePostSave("r1")
    \/ UpdatePostFind("r1")
    \/ UpdatePostSave("r1")

SpecSlug == Init /\ [][SlugNext]_vars

\* contents of the content behaviours: the shortest valid content, one a
\* character too short, the 450 words of the documentation's example, the
\* same with 200 words, 199 words without markup or blanks around, and
\* markup without a word
ContentShort == Repeat("a", ContentMinLen - 1)
WordsIn(n) == [i \in 1..2 * n |-> IF i % 2 = 1 THEN "a" ELSE " "]
Paragraph(s) == <<"<", "p", ">">> \o s \o <<"<", "/", "p", ">">>
ContentExample == Paragraph(WordsIn(WordsPerMinute * 2 + 50))
ContentMinute == Paragraph(WordsIn(WordsPerMinute))
ContentPlain == SubSeq(WordsIn(WordsPerMinute - 1), 1, 2 * WordsPerMinute - 3)
ContentMarkup == Paragraph(<<>>) \o Paragraph(<<>>)
Contents ==
    {ContentOk, ContentShort, ContentExample, ContentMinute, ContentPlain,
     ContentMarkup}
TitleTooLong == Repeat("a", TitleMaxLen + 1)
TitlePadded == Repeat("a", TitleMaxLen) \o <<" ">>

\* post create and update requests one at a time, over those contents,
\* with and without title, content and category, with a title of the
\* greatest length, sent with a blank behind it, and one longer
ContentNext ==
    \/ \E t \in {<<>>, TitleH, TitlePadded, TitleTooLong}, c \in Contents \cup {<<>>},
          cat \in {"", "Tech"} :
          ReqCreatePost("r1", "ann", t, c, cat, "")
    \/ \E p \in PostIds, c \in Contents \cup {<<>>}, cat \in {"", "Tech"} :
          ReqUpdatePost("r1", "ann", p, <<>>, c, cat, "")
    \/ CreatePostSave("r1")
    \/ UpdatePostFind("r1")
    \/ UpdatePostSave("r1")

SpecContent == Init /\ [][ContentNext]_vars

\* A store with a thread to work on: ann's published post 1 with bob's
\* comment 1, as two requests before the clock's start left them.
InitThread ==
    /\ users = [u \in Users |->
                  [role |-> IF u = "root" THEN "admin" ELSE "user",
                   isActive |-> TRUE]]
    /\ posts = 1 :> [NewPost(TitleH, ContentOk, "Other", "Published", "ann") EXCEPT
                       !.slug = Slugify(TitleH), !.publishedAt = -2,
                       !.readTime = ReadTime(ContentOk),
                       !.excerpt = Excerpt(ContentOk), !.commentsCount = 1]
    /\ comments = 1 :> [NewComment(BodyHi, 1, "bob", 0) EXCEPT !.createdAt = -1]
    /\ nextPost = 1
    /\ nextComment = 1
    /\ reqs = [r \in Procs |-> Idle]
    /\ nreq = 0

\* comments, replies, soft deletes and lists on that thread, one request
\* at a time
ThreadNext ==
    \/ \E u \in {"ann", "bob"}, parent \in {0, 1} :
          ReqCreateComment("r1", u, 1, BodyHi, parent)
    \/ \E u \in {"ann", "bob"}, c \in CommentIds : ReqSoftDelete("r1", u, c)
    \/ \E p \in PostIds, pg \in {<<0, 0>>, <<1, 1>>, <<2, 1>>} :
          ReqListComments("r1", p, pg[1], pg[2])
    \/ CreateCommentFindPost("r1") \/ CreateCommentFindParent("r1")
    \/ CreateCommentSave("r1") \/ CreateCommentLink("r1")
    \/ SoftDeleteFind("r1") \/ SoftDeleteSave("r1")
    \/ SyncCount("r1") \/ SyncWrite("r1")
    \/ ListFindPost("r1") \/ ListQuery("r1") \/ ListTotal("r1")

SpecThread == InitThread /\ [][ThreadNext]_vars

\* the same behaviours with a store that can fail at the parent update of
\* a reply
LinkFaultNext == ThreadNext \/ CreateCommentLinkFails("r1")

SpecLinkFault == InitThread /\ [][LinkFaultNext]_vars

\* an id that is no user's, a role that is none
UserGhost == "zed"
RoleBogus == "owner"

\* role changes interleaved at their awaits: every user asks for every role
\* for every user
RoleNext ==
    \E r \in Procs :
        \/ \E u \in Users, id \in Users \cup {UserGhost},
              role \in {"user", "admin", RoleBogus} : ReqSetRole(r, u, id, role)
        \/ SetRoleWrite(r)

SpecRole == Init /\ [][RoleNext]_vars

\* one run of the seed script, the saves of Comment.create in any order
SeedNext ==
    \/ SeedClear("r1")
    \/ SeedCreatePosts("r1")
    \/ \E i \in 1..Len(SeedComments) :
          \/ SeedCommentSave("r1", i)
          \/ SeedCommentCount("r1", i)
          \/ SeedCommentWrite("r1", i)
    \/ SeedPushLikes("r1")

SpecSeed == Init /\ [][SeedNext]_vars

\* ------------------------------------------------------------ properties
\* no request is between two of its store calls
Quiet == \A r \in Procs : Free(r)

\* slot r holds the response of a completed request of kind op
Answered(r, op) == reqs[r].pc = "done" /\ reqs[r].op = op

Succeeded(r, op) == Answered(r, op) /\ reqs[r].err = "none"

\* the stored comments of post p that are not deleted, at any level
LiveComments(p) ==
    {c \in DOMAIN comments : comments[c].post = p /\ comments[c].isDeleted = FALSE}

\* C1: with requests executed one at a time, every stored post and every
\* stored comment has likesCount equal to the number of entries of its likes.
C1_LikesCountMatches ==
    /\ \A p \in DOMAIN posts : posts[p].likesCount = Len(posts[p].likes)
    /\ \A c \in DOMAIN comments : comments[c].likesCount = Len(comments[c].likes)

\* C1 happens: a like of a comment has completed, on a post that is liked
\* too
C1_Witness ==
    /\ Succeeded("r1", "likeComment") /\ reqs["r1"].liked
    /\ comments[reqs["r1"].cid].likesCount = 1
    /\ posts[comments[reqs["r1"].cid].post].likesCount = 1

\* the post whose commentsCount the completed comment request of slot r
\* synchronised
SyncedPost(r) ==
    IF reqs[r].op = "createComment" THEN reqs[r].pid
    ELSE comments[reqs[r].cid].post

\* C2: with requests executed one at a time, after each completed comment
\* create or soft delete the post's commentsCount is the number of stored
\* comments of that post that are not deleted, replies included.
C2_CommentsCountAfterWrite ==
    \A r \in Procs :
        (Succeeded(r, "createComment") \/ Succeeded(r, "softDelete"))
        /\ SyncedPost(r) \in DOMAIN posts
        => posts[SyncedPost(r)].commentsCount = Cardinality(LiveComments(SyncedPost(r)))

\* C2 happens: a soft delete of a top-level comment has completed and the
\* post's count is the one reply that is left
C2_Witness ==
    /\ Succeeded("r1", "softDelete")
    /\ comments[reqs["r1"].cid].parentComment = 0
    /\ posts[SyncedPost("r1")].commentsCount = 1
    /\ \E c \in DOMAIN comments :
          /\ comments[c].parentComment = reqs["r1"].cid
          /\ ~comments[c].isDeleted

\* C3: when two toggleLike requests of different actors read the same
\* version of a post and both succeed, the likes contain each actor exactly
\* when that actor's toggle was a like, and likesCount is their number.
C3_ConcurrentTogglesKept ==
    \A a, b \in Procs :
        /\ a # b
        /\ Succeeded(a, "likePost") /\ Succeeded(b, "likePost")
        /\ reqs[a].pid = reqs[b].pid /\ reqs[a].actor # reqs[b].actor
        /\ reqs[a].ver = reqs[b].ver
        /\ reqs[a].pid \in DOMAIN posts
        => LET post == posts[reqs[a].pid] IN
           /\ HasLike(post.likes, reqs[a].actor) = reqs[a].liked
           /\ HasLike(post.likes, reqs[b].actor) = reqs[b].liked
           /\ post.likesCount = Len(post.likes)

\* C4: once every comment create and soft delete has completed, each
\* post's commentsCount is the number of its comments that are not deleted.
C4_CountConsistentWhenQuiet ==
    /\ Quiet
    /\ \A r \in Procs : Succeeded(r, "createComment") \/ Succeeded(r, "softDelete")
    => \A p \in DOMAIN posts : posts[p].commentsCount = Cardinality(LiveComments(p))

\* C5: every stored reply has a top-level parent, and a create on a
\* published post that names a reply as parent is answered InvalidParent.
C5_DepthCapped ==
    /\ \A c \in DOMAIN comments :
          comments[c].parentComment \in DOMAIN comments
          => comments[comments[c].parentComment].parentComment = 0
    /\ \A r \in Procs :
          /\ Answered(r, "createComment")
          /\ reqs[r].parent \in DOMAIN comments
          /\ comments[reqs[r].parent].parentComment # 0
          /\ reqs[r].pid \in DOMAIN posts
          /\ posts[reqs[r].pid].status = "Published"
          /\ reqs[r].err # "ValidationError"
          => reqs[r].err = "InvalidParent"

\* C6: a stored comment with isDeleted keeps, in every step that leaves it
\* stored, the placeholder as body and its likes and likesCount.
C6_DeletedFrozen ==
    [][\A c \in DOMAIN comments :
          comments[c].isDeleted /\ c \in DOMAIN comments'
          => /\ comments'[c].isDeleted
             /\ comments'[c].comment = Placeholder
             /\ comments'[c].likes = comments[c].likes
             /\ comments'[c].likesCount = comments[c].likesCount]_vars

\* C7: when the delete of a post is answered with success, the post is not
\* stored and no stored comment references it.
C7_DeleteCascades ==
    \A r \in Procs :
        Succeeded(r, "deletePost")
        => reqs[r].pid \notin DOMAIN posts /\ CommentsOf(reqs[r].pid) = {}

\* C7 happens: the only post ever created had a comment and a reply and
\* its delete has been answered with success
C7_Witness ==
    /\ Succeeded("r1", "deletePost")
    /\ nextPost = 1 /\ reqs["r1"].pid = 1
    /\ nextComment = 2

\* C8: every stored comment references a stored post, in every state of
\* every interleaving.
C8_NoDanglingComment ==
    \A c \in DOMAIN comments : comments[c].post \in DOMAIN posts

\* C9: a delete whose removal of the post failed leaves the post stored
\* and its comments removed, and the same actor's repeated delete, when
\* the store no longer fails, succeeds and leaves neither the post nor a
\* comment referencing it.
C9_DeleteRetryable ==
    \A r \in Procs :
        /\ Answered(r, "deletePost") /\ reqs[r].fault
           => /\ reqs[r].err = "ServerError"
              /\ reqs[r].pid \in DOMAIN posts
              /\ CommentsOf(reqs[r].pid) = {}
        /\ Answered(r, "deletePost") /\ reqs[r].retry /\ ~reqs[r].fault
           => /\ reqs[r].err = "none"
              /\ reqs[r].pid \notin DOMAIN posts
              /\ CommentsOf(reqs[r].pid) = {}

\* C9 happens: a post with a comment, a delete that failed at the removal
\* of the post, and the repeated delete answered
C9_Witness ==
    /\ Answered("r1", "deletePost") /\ reqs["r1"].retry /\ ~reqs["r1"].fault
    /\ nextComment >= 1

\* C10: a post's slug is the slug of its title when it is created and is
\* the same after every later step.
C10_SlugAssignedOnce ==
    [][\A p \in DOMAIN posts' :
          IF p \in DOMAIN posts
          THEN posts'[p].slug = posts[p].slug
          ELSE posts'[p].slug = Slugify(posts'[p].title)]_vars

\* C11: with requests executed one at a time, a post's publishedAt is
\* absent until a save makes its status Published, is then the time of that
\* save, and is the same after every later step, whatever the status
\* becomes.
C11_PublishedAtSetOnce ==
    [][\A p \in DOMAIN posts' :
          IF p \in DOMAIN posts /\ posts[p].publishedAt # 0
          THEN posts'[p].publishedAt = posts[p].publishedAt
          ELSE IF posts'[p].status = "Published"
               THEN posts'[p].publishedAt = nreq /\ nreq > 0
               ELSE posts'[p].publishedAt = 0]_vars

\* C11 happens: a post published by an earlier request was taken back to
\* Draft and has now been published again, with its first publishedAt
C11_Witness ==
    /\ Succeeded("r1", "updatePost") /\ reqs["r1"].was = "Draft"
    /\ reqs["r1"].pid \in DOMAIN posts
    /\ posts[reqs["r1"].pid].status = "Published"
    /\ posts[reqs["r1"].pid].publishedAt > 0
    /\ posts[reqs["r1"].pid].publishedAt < nreq - 1

\* C12: with requests executed one at a time, when an actor's successful
\* toggle of a post's or comment's like is followed at once by the same
\* actor's toggle of the same entity, the second toggle succeeds, the
\* entity has the likesCount and the membership of the actor it had before
\* the first, and the two responses report opposite values of liked, the
\* first being the negation of the original membership.
C12_ToggleTwiceRestores ==
    \A r \in Procs :
        /\ Answered(r, "likePost") /\ reqs[r].carry # <<>>
           => /\ reqs[r].err = "none"
              /\ reqs[r].liked = ~reqs[r].carry[1].liked
              /\ reqs[r].pid \in DOMAIN posts
              /\ posts[reqs[r].pid].likesCount = reqs[r].carry[1].base
              /\ HasLike(posts[reqs[r].pid].likes, reqs[r].actor)
                    = ~reqs[r].carry[1].liked
        /\ Answered(r, "likeComment") /\ reqs[r].carry # <<>>
           => /\ reqs[r].err = "none"
              /\ reqs[r].liked = ~reqs[r].carry[1].liked
              /\ reqs[r].cid \in DOMAIN comments
              /\ comments[reqs[r].cid].likesCount = reqs[r].carry[1].base
              /\ HasLike(comments[reqs[r].cid].likes, reqs[r].actor)
                    = ~reqs[r].carry[1].liked

\* C12 happens: a post liked by another user was liked and then at once
\* unliked by the same actor
C12_Witness ==
    /\ Succeeded("r1", "likePost") /\ reqs["r1"].carry # <<>>
    /\ reqs["r1"].carry[1].liked /\ reqs["r1"].carry[1].base = 1
    /\ ~reqs["r1"].liked

\* the comment of the completed soft delete of slot r is stored, marked
\* deleted with the placeholder as body, and still listed in the replies of
\* its parent
SoftDeletedKept(r) ==
    /\ reqs[r].cid \in DOMAIN comments
    /\ LET c == comments[reqs[r].cid] IN
       /\ c.isDeleted /\ c.comment = Placeholder
       /\ c.post \in DOMAIN posts
       /\ c.parentComment # 0
          => /\ c.parentComment \in DOMAIN comments
             /\ \E i \in 1..Len(comments[c.parentComment].replies) :
                   comments[c.parentComment].replies[i] = reqs[r].cid

\* C13 as stated: with requests executed one at a time, every successful
\* soft delete leaves the comment stored, deleted, with the placeholder and
\* in its parent's replies, and the post's commentsCount one lower than it
\* was.
C13_SoftDeleteLowersCount ==
    \A r \in Procs :
        Succeeded(r, "softDelete")
        => /\ SoftDeletedKept(r)
           /\ posts[comments[reqs[r].cid].post].commentsCount = reqs[r].base - 1

\* C13 amended: every successful soft delete leaves the comment stored,
\* deleted, with the placeholder and in its parent's replies; the post's
\* commentsCount is one lower than it was when the comment was not deleted
\* before, and the same as it was when the comment was already deleted.
C13_SoftDeleteLowersCountOnce ==
    \A r \in Procs :
        Succeeded(r, "softDelete")
        => /\ SoftDeletedKept(r)
           /\ posts[comments[reqs[r].cid].post].commentsCount
                 = IF reqs[r].was = "live" THEN reqs[r].base - 1 ELSE reqs[r].base

\* C13 happens: a reply that was not deleted has been soft deleted and the
\* post counts the one comment left
C13_Witness ==
    /\ Succeeded("r1", "softDelete") /\ reqs["r1"].was = "live"
    /\ comments[reqs["r1"].cid].parentComment # 0
    /\ reqs["r1"].base = 2
    /\ posts[comments[reqs["r1"].cid].post].commentsCount = 1

\* no user has two entries in the likes array
NoDuplicate(likes) ==
    \A i, j \in 1..Len(likes) : likes[i] = likes[j] => i = j

\* C14: in every state of every interleaving, no user has more than one
\* entry in the likes of a post or of a comment.
C14_LikesUnique ==
    /\ \A p \in DOMAIN posts : NoDuplicate(posts[p].likes)
    /\ \A c \in DOMAIN comments : NoDuplicate(comments[c].likes)

\* C15: with requests executed one at a time, the step in which a comment
\* create finds its post Draft or Archived answers InvalidState and changes
\* neither the comments nor any post (commentsCount included); and a create
\* of a top-level comment with a body, answered while its post is stored
\* and Published, has succeeded.
C15_CommentNeedsPublished ==
    /\ [][\A r \in Procs :
             /\ reqs[r].op = "createComment" /\ reqs[r].pc = "find"
             /\ reqs'[r] # reqs[r]
             /\ reqs[r].pid \in DOMAIN posts
             /\ posts[reqs[r].pid].status # "Published"
             => /\ reqs'[r].pc = "done" /\ reqs'[r].err = "InvalidState"
                /\ comments' = comments /\ posts' = posts
                /\ nextComment' = nextComment]_vars
    /\ [](\A r \in Procs :
             /\ Answered(r, "createComment") /\ reqs[r].parent = 0
             /\ reqs[r].pid \in DOMAIN posts
             /\ posts[reqs[r].pid].status = "Published"
             /\ reqs[r].err # "ValidationError"
             => /\ reqs[r].err = "none"
                /\ reqs[r].cid \in DOMAIN comments
                /\ comments[reqs[r].cid].post = reqs[r].pid)

\* C15 happens: the first post was created as a draft and was published
\* by the third request, and the comment of the fourth request is stored
C15_Witness ==
    /\ Succeeded("r1", "createComment") /\ reqs["r1"].pid = 1
    /\ nreq = 4 /\ nextPost = 1 /\ nextComment = 1
    /\ 1 \in DOMAIN posts /\ posts[1].publishedAt = 3
    /\ posts[1].commentsCount = 1

\* C16: with requests executed one at a time, the step in which a comment
\* create finds no comment with the parent id, or finds the parent on
\* another post, answers InvalidParent and stores nothing; and every stored
\* reply has a stored parent of the same post.
C16_ParentOfSamePost ==
    /\ [][\A r \in Procs :
             /\ reqs[r].op = "createComment" /\ reqs[r].pc = "parent"
             /\ reqs'[r] # reqs[r]
             /\ \/ reqs[r].parent \notin DOMAIN comments
                \/ comments[reqs[r].parent].post # reqs[r].pid
             => /\ reqs'[r].pc = "done" /\ reqs'[r].err = "InvalidParent"
                /\ comments' = comments /\ posts' = posts
                /\ nextComment' = nextComment]_vars
    /\ [](\A c \in DOMAIN comments :
             comments[c].parentComment # 0
             => /\ comments[c].parentComment \in DOMAIN comments
                /\ comments[comments[c].parentComment].post = comments[c].post)

\* C16 happens: a reply on a published post named a comment of another
\* post as parent and was refused
C16_Witness ==
    /\ Answered("r1", "createComment") /\ reqs["r1"].err = "InvalidParent"
    /\ reqs["r1"].pid \in DOMAIN posts
    /\ posts[reqs["r1"].pid].status = "Published"
    /\ reqs["r1"].parent \in DOMAIN comments
    /\ comments[reqs["r1"].parent].post # reqs["r1"].pid
    /\ nextComment = 1

\* C17: in every interleaving, the step in which the post-save hook of a
\* comment writes the count leaves every stored post stored, with every
\* field other than commentsCount as it was just before the step, so with
\* whatever an update, view or like wrote since the hook counted.
C17_SyncWritesOnlyCount ==
    [][\A r \in Procs :
          reqs[r].pc = "sync" /\ reqs'[r].pc # "sync"
          => \A p \in DOMAIN posts :
                /\ p \in DOMAIN posts'
                /\ \A f \in DOMAIN posts[p] \ {"commentsCount"} :
                      posts'[p][f] = posts[p][f]]_vars

\* C17 happens: a like of the post completed between the count and the
\* write of the hook of a comment create, and the post has both the like
\* and the count
C17_Witness ==
    \E r \in Procs :
        /\ Succeeded(r, "createComment") /\ reqs[r].raced
        /\ reqs[r].pid \in DOMAIN posts
        /\ LET post == posts[reqs[r].pid] IN
           /\ post.status = "Published" /\ post.views = 0
           /\ post.likes # <<>> /\ post.likesCount = Len(post.likes)
           /\ post.commentsCount = 1

\* C18: with requests executed one at a time, a read of a post whose write
\* of the view counter failed is answered with success.
C18_ViewFailureSwallowed ==
    \A r \in Procs :
        Answered(r, "viewPost") /\ reqs[r].fault => reqs[r].err = "none"

\* C19: with requests executed one at a time and the store not failing, a
\* read of a stored post leaves its views one higher than they were when
\* the post is Published and the viewer is not its author (logged in or
\* not), and as they were when the viewer is the author or the post is not
\* Published.
C19_ViewCounted ==
    \A r \in Procs :
        /\ Answered(r, "viewPost") /\ ~reqs[r].fault
        /\ reqs[r].pid \in DOMAIN posts
        => LET post == posts[reqs[r].pid] IN
           IF post.status = "Published" /\ reqs[r].actor # post.author
           THEN reqs[r].err = "none" /\ post.views = reqs[r].base + 1
           ELSE post.views = reqs[r].base

\* C19 happens: a published post that had one view has been read without a
\* login and has two
C19_Witness ==
    /\ Succeeded("r1", "viewPost") /\ reqs["r1"].actor = Anon
    /\ reqs["r1"].base = 1
    /\ posts[reqs["r1"].pid].views = 2

\* C20: with requests executed one at a time, the step in which an update
\* or a delete of a post looks the post up answers NotFound when no post
\* has the id and Forbidden when the actor is neither the post's author nor
\* an admin, leaving posts and comments as they were, and otherwise goes
\* on; and every later step of such a request that changes a post or a
\* comment is taken for the author of the post or for an admin.
C20_OnlyAuthorOrAdmin ==
    [][\A r \in Procs :
          reqs[r].op \in {"updatePost", "deletePost"} /\ reqs'[r] # reqs[r]
          => /\ reqs[r].pc = "find"
                => IF reqs[r].pid \notin DOMAIN posts
                   THEN /\ reqs'[r].pc = "done" /\ reqs'[r].err = "NotFound"
                        /\ posts' = posts /\ comments' = comments
                   ELSE IF reqs[r].actor # posts[reqs[r].pid].author
                           /\ reqs[r].role # "admin"
                        THEN /\ reqs'[r].pc = "done"
                             /\ reqs'[r].err = "Forbidden"
                             /\ posts' = posts /\ comments' = comments
                        ELSE reqs'[r].pc # "done"
             /\ reqs[r].pc \in {"save", "deleteMany", "deletePost"}
                /\ (posts' # posts \/ comments' # comments)
                => /\ reqs[r].pid \in DOMAIN posts
                   /\ \/ reqs[r].actor = posts[reqs[r].pid].author
                      \/ reqs[r].role = "admin"]_vars

\* C20 happens: the delete of a post that has a comment, by a user who is
\* neither its author nor an admin, has been answered Forbidden
C20_Witness ==
    /\ Answered("r1", "deletePost") /\ reqs["r1"].err = "Forbidden"
    /\ reqs["r1"].role = "user"
    /\ reqs["r1"].pid \in DOMAIN posts
    /\ reqs["r1"].actor # posts[reqs["r1"].pid].author
    /\ CommentsOf(reqs["r1"].pid) # {}

\* the step of slot r is the lookup of a stored comment by a request of
\* kind op
LooksUpComment(r, op) ==
    /\ reqs[r].op = op /\ reqs[r].pc = "find" /\ reqs'[r] # reqs[r]
    /\ reqs[r].cid \in DOMAIN comments

\* the step of slot r answers err and changes neither a comment nor a post
RefusedWith(r, err) ==
    /\ reqs'[r].pc = "done" /\ reqs'[r].err = err
    /\ comments' = comments /\ posts' = posts

\* C21: with requests executed one at a time, an edit of a
\* stored comment by anyone but its author, and a soft delete by anyone
\* who is neither its author nor an admin, is answered Forbidden and
\* changes neither the comment nor the post.
C21_CommentOwnership ==
    [][\A r \in Procs :
          /\ LooksUpComment(r, "editComment")
             /\ reqs[r].actor # comments[reqs[r].cid].userId
             => RefusedWith(r, "Forbidden")
          /\ LooksUpComment(r, "softDelete")
             /\ reqs[r].actor # comments[reqs[r].cid].userId
             /\ reqs[r].role # "admin"
             => RefusedWith(r, "Forbidden")]_vars

\* C22: with requests executed one at a time, the save of every edit that
\* passed its checks stores the trimmed new body, isEdited true and an
\* editedAt, also when the new body is the body the comment had.
C22_EditMarksEdited ==
    [][\A r \in Procs :
          reqs[r].op = "editComment" /\ reqs[r].pc = "save"
          /\ reqs'[r].pc = "count"
          => LET c == comments'[reqs[r].cid] IN
             /\ c.comment = Trim(reqs[r].body)
             /\ c.isEdited
             /\ c.editedAt # 0]_vars

\* C23: in every interleaving, a comment leaves the store only in the
\* deleteMany step of the delete of its post, and a stored comment with
\* isDeleted has isDeleted after every step that leaves it stored.
C23_SoftDeleteKeeps ==
    [][\A c \in DOMAIN comments :
          IF c \in DOMAIN comments'
          THEN comments[c].isDeleted => comments'[c].isDeleted
          ELSE \E r \in Procs :
                  /\ reqs[r].op = "deletePost" /\ reqs[r].pc = "deleteMany"
                  /\ reqs'[r].pc = "deletePost"
                  /\ reqs[r].pid = comments[c].post]_vars

\* C23 happens: an edit that had loaded the comment before it was soft
\* deleted has saved after, and the comment is stored and deleted
C23_Witness ==
    \E r \in Procs :
        /\ Succeeded(r, "editComment")
        /\ reqs[r].cid \in DOMAIN comments
        /\ comments[reqs[r].cid].isDeleted
        /\ comments[reqs[r].cid].comment = BodyYo

\* the ids of the elements of a sequence
Elements(s) == {s[i] : i \in 1..Len(s)}

\* C24: with requests executed one at a time, a list of a post that is not
\* stored is answered NotFound; a list of a stored post returns only
\* top-level comments of that post that are not deleted, each newer than
\* the next, each with exactly the comments that name it as parent and are
\* not deleted; and the first page of the default size returns all of the
\* post's top-level comments that are not deleted.
C24_ListShowsLive ==
    \A r \in Procs :
        Answered(r, "listComments")
        => IF reqs[r].pid \notin DOMAIN posts
           THEN reqs[r].err = "NotFound"
           ELSE LET l == reqs[r].list IN
                /\ reqs[r].err = "none"
                /\ \A i \in 1..Len(l) :
                      /\ l[i].id \in DOMAIN comments
                      /\ comments[l[i].id].post = reqs[r].pid
                      /\ comments[l[i].id].isDeleted = FALSE
                      /\ comments[l[i].id].parentComment = 0
                      /\ Elements(l[i].replies)
                            = {c \in DOMAIN comments :
                                  /\ comments[c].parentComment = l[i].id
                                  /\ comments[c].isDeleted = FALSE}
                /\ \A i, j \in 1..Len(l) :
                      i < j => comments[l[i].id].createdAt
                                  > comments[l[j].id].createdAt
                /\ reqs[r].page = 1 /\ reqs[r].limit = ListLimitDefault
                   => {l[i].id : i \in 1..Len(l)}
                         = {c \in DOMAIN comments :
                               /\ comments[c].post = reqs[r].pid
                               /\ comments[c].isDeleted = FALSE
                               /\ comments[c].parentComment = 0}

\* C24 happens: the list shows a comment with one reply while another
\* reply of that comment is stored and deleted
C24_Witness ==
    /\ Succeeded("r1", "listComments") /\ Len(reqs["r1"].list) = 1
    /\ reqs["r1"].list[1].id = 1
    /\ Len(reqs["r1"].list[1].replies) = 1
    /\ \E c \in DOMAIN comments :
          comments[c].parentComment = 1 /\ comments[c].isDeleted

\* the whitespace-separated words of s
Words(s) ==
    Cardinality({i \in 1..Len(s) :
                    s[i] # " " /\ (i = 1 \/ s[i - 1] = " ")})

\* C25: with requests executed one at a time, every stored post has
\* readTime = max(1, ceil(W / 200)), W being the number of words of its
\* content without the markup tags.
C25_ReadTimeOfWords ==
    \A p \in DOMAIN posts :
        LET w == Words(StripTags(posts[p].content))
            minutes == (w + 199) \div 200
        IN  posts[p].readTime = IF minutes < 1 THEN 1 ELSE minutes

\* C26: in every interleaving, no two stored posts have the same slug, and
\* the save of a create whose title's slug is the slug of a stored post
\* answers a failure and stores nothing.
C26_SlugsUnique ==
    /\ [](\A p, q \in DOMAIN posts : posts[p].slug = posts[q].slug => p = q)
    /\ [][\A r \in Procs :
             /\ reqs[r].op = "createPost" /\ reqs[r].pc = "save"
             /\ reqs'[r] # reqs[r]
             /\ \E p \in DOMAIN posts :
                   posts[p].slug = Slugify(reqs[r].doc[1].title)
             => /\ reqs'[r].pc = "done" /\ reqs'[r].err # "none"
                /\ posts' = posts /\ nextPost' = nextPost]_vars

\* C26 happens: two creates with the same title were in flight together;
\* one stored its post, the other then failed
C26_Witness ==
    \E a, b \in Procs :
        /\ Succeeded(a, "createPost") /\ reqs[a].pid \in DOMAIN posts
        /\ Answered(b, "createPost") /\ reqs[b].err = "ServerError"
        /\ nreq = 2 /\ posts[reqs[a].pid].publishedAt = 2
        /\ Cardinality(DOMAIN posts) = 1

\* C27: with requests executed one at a time, the save of a successful
\* update leaves title, content, category and status as they were when the
\* patch does not name them, leaves author, likes, likesCount,
\* commentsCount, views and slug as they were, changes readTime only with
\* the content, and changes publishedAt only when there was none and the
\* status becomes Published.
C27_UpdateIsPartial ==
    [][\A r \in Procs :
          /\ reqs[r].op = "updatePost" /\ reqs[r].pc = "save"
          /\ reqs'[r].pc = "done" /\ reqs'[r].err = "none"
          => LET old == posts[reqs[r].pid]
                 new == posts'[reqs[r].pid]
             IN  /\ reqs[r].title = <<>> => new.title = old.title
                 /\ reqs[r].content = <<>> => new.content = old.content
                 /\ reqs[r].category = "" => new.category = old.category
                 /\ reqs[r].status = "" => new.status = old.status
                 /\ \A f \in {"author", "likes", "likesCount", "commentsCount",
                                "views", "slug"} : new[f] = old[f]
                 /\ new.readTime # old.readTime => new.content # old.content
                 /\ new.publishedAt # old.publishedAt
                    => /\ old.publishedAt = 0
                       /\ new.status = "Published"
                       /\ old.status # "Published"]_vars

\* C28: with requests executed one at a time, the status of every stored
\* post is Draft, Published or Archived; the save of an update that
\* assigns one of the three succeeds and stores it, whatever the status
\* was; the save of an update that assigns another value answers
\* ValidationError and leaves the posts as they were.
C28_StatusMachine ==
    /\ [](\A p \in DOMAIN posts :
             posts[p].status \in {"Draft", "Published", "Archived"})
    /\ [][\A r \in Procs :
             /\ reqs[r].op = "updatePost" /\ reqs[r].pc = "save"
             /\ reqs'[r] # reqs[r] /\ reqs[r].status # ""
             => IF reqs[r].status \in {"Draft", "Published", "Archived"}
                THEN /\ reqs'[r].pc = "done" /\ reqs'[r].err = "none"
                     /\ posts'[reqs[r].pid].status = reqs[r].status
                ELSE /\ reqs'[r].pc = "done"
                     /\ reqs'[r].err = "ValidationError"
                     /\ posts' = posts]_vars

\* C28 happens: an archived post has been taken back to Draft
C28_Witness ==
    /\ Succeeded("r1", "updatePost") /\ reqs["r1"].was = "Archived"
    /\ reqs["r1"].pid \in DOMAIN posts
    /\ posts[reqs["r1"].pid].status = "Draft"

C30_RecountIdempotent ==
    [][\A r \in Procs :
          /\ reqs[r].pc = "sync" /\ reqs'[r].pc # "sync"
          /\ SyncedPost(r) \in DOMAIN posts
          => LET p == SyncedPost(r) IN
             /\ posts'[p].commentsCount = Cardinality(LiveComments(p))
             /\ \/ reqs[r].op \in {"editComment", "likeComment"}
                \/ reqs[r].op = "softDelete" /\ reqs[r].was = "deleted"
                => posts'[p].commentsCount = posts[p].commentsCount]_vars

\* C30 happens: a like toggle on a comment has completed, its save has run
\* the hook again, and the post still counts its two comments
C30_Witness ==
    /\ Succeeded("r1", "likeComment")
    /\ reqs["r1"].cid \in DOMAIN comments
    /\ SyncedPost("r1") \in DOMAIN posts
    /\ posts[SyncedPost("r1")].commentsCount = 2
    /\ Cardinality(LiveComments(SyncedPost("r1"))) = 2

\* C31: in every interleaving, two completed reads of a published post by
\* readers other than its author that both found views at the same number
\* have raised views by two, and no step lowers the views of a stored post.
C31_ViewsLoseNoUpdate ==
    /\ [](\A r, s \in Procs :
            /\ r # s
            /\ Succeeded(r, "viewPost") /\ Succeeded(s, "viewPost")
            /\ reqs[r].pid = reqs[s].pid /\ reqs[r].pid \in DOMAIN posts
            /\ reqs[r].actor # posts[reqs[r].pid].author
            /\ reqs[s].actor # posts[reqs[s].pid].author
            /\ reqs[r].base = reqs[s].base
            => posts[reqs[r].pid].views >= reqs[r].base + 2)
    /\ [][\A p \in DOMAIN posts \cap DOMAIN posts' :
             posts'[p].views >= posts[p].views]_vars

\* the number of times comment c occurs in the replies of comment p
Occurrences(p, c) ==
    Cardinality({i \in 1..Len(comments[p].replies) : comments[p].replies[i] = c})

\* C32: with requests executed one at a time, whenever no request is in
\* flight, for every stored comment p an id c occurs in p.replies, and then
\* once, exactly when c is a stored comment with parentComment = p; a
\* failure of the parent update after the reply was saved included.
C32_RepliesLinkedBothWays ==
    Quiet =>
        \A p \in DOMAIN comments, c \in CommentIds :
            /\ Occurrences(p, c) <= 1
            /\ Occurrences(p, c) = 1
                  <=> c \in DOMAIN comments /\ comments[c].parentComment = p

\* C33: with requests executed one at a time, a completed list of a post
\* whose one page holds all there is to list shows every comment of the post
\* that is not deleted, the ones its commentsCount counts, as a top-level
\* comment or among the replies of one.
C33_CountedCommentsListed ==
    \A r \in Procs :
        /\ Succeeded(r, "listComments")
        /\ reqs[r].page = 1 /\ reqs[r].limit = ListLimitDefault
        /\ reqs[r].pid \in DOMAIN posts
        => LET l == reqs[r].list IN
           /\ posts[reqs[r].pid].commentsCount
                 = Cardinality(LiveComments(reqs[r].pid))
           /\ \A c \in LiveComments(reqs[r].pid) :
                 \E i \in 1..Len(l) :
                    l[i].id = c \/ c \in Elements(l[i].replies)

\* C34: with requests executed one at a time, the save of a soft delete
\* leaves the comment's isEdited, editedAt, likes, likesCount, replies,
\* parentComment, post and userId as they were stored before it.
C34_SoftDeleteFrame ==
    [][\A r \in Procs :
          /\ reqs[r].op = "softDelete" /\ reqs[r].pc = "save"
          /\ reqs'[r].pc # "save" /\ reqs'[r].err = "none"
          => \A f \in {"isEdited", "editedAt", "likes", "likesCount", "replies",
                        "parentComment", "post", "userId"} :
                comments'[reqs[r].cid][f] = comments[reqs[r].cid][f]]_vars

\* C35: with requests executed one at a time, every stored post whose
\* status is Published has a publishedAt, and a post comes to have a
\* publishedAt only in a step that stores it with status Published, so that
\* a post that was never Published has none.
C35_PublishedHasDate ==
    /\ [](\A p \in DOMAIN posts :
            posts[p].status = "Published" => posts[p].publishedAt # 0)
    /\ [][\A p \in DOMAIN posts' :
             /\ p \notin DOMAIN posts \/ posts[p].publishedAt = 0
             /\ posts'[p].publishedAt # 0
             => posts'[p].status = "Published"]_vars

\* C35 happens: of two posts created as drafts, an update has published the
\* second, which has its publishedAt, and the first, still a draft, has none
C35_Witness ==
    /\ Succeeded("r1", "updatePost") /\ reqs["r1"].was = "Draft"
    /\ reqs["r1"].pid = 2 /\ DOMAIN posts = {1, 2}
    /\ posts[2].status = "Published" /\ posts[2].publishedAt # 0
    /\ posts[1].status = "Draft" /\ posts[1].publishedAt = 0

\* C36: with requests executed one at a time, the read of a post that is
\* not Published by a caller without a login, or by a user who is neither
\* its author nor an admin, is answered NotFound, as the read of an id with
\* no post is, and changes nothing that is stored, views included.
C36_UnpublishedHidden ==
    [][\A r \in Procs :
          /\ reqs[r].op = "viewPost" /\ reqs[r].pc = "find"
          /\ reqs'[r] # reqs[r]
          /\ \/ reqs[r].pid \notin DOMAIN posts
             \/ /\ posts[reqs[r].pid].status # "Published"
                /\ \/ reqs[r].actor = Anon
                   \/ /\ reqs[r].actor # posts[reqs[r].pid].author
                      /\ reqs[r].role # "admin"
          => /\ reqs'[r].pc = "done" /\ reqs'[r].err = "NotFound"
             /\ posts' = posts /\ comments' = comments /\ users' = users]_vars

\* C36 happens: bob's read of ann's stored draft was answered NotFound and
\* the draft has no view
C36_Witness ==
    /\ Answered("r1", "viewPost") /\ reqs["r1"].err = "NotFound"
    /\ reqs["r1"].actor = "bob"
    /\ reqs["r1"].pid \in DOMAIN posts
    /\ posts[reqs["r1"].pid].status = "Draft"
    /\ posts[reqs["r1"].pid].author = "ann"
    /\ posts[reqs["r1"].pid].views = 0

\* C37: in every interleaving of role-change requests, at least one user
\* has the role admin.
C37_AdminRemains == \E u \in DOMAIN users : users[u].role = "admin"

\* C38: when the seed script has completed, every stored post has
\* likesCount equal to the number of entries of its likes and commentsCount
\* equal to the number of the stored comments of that post.
C38_SeedCountersMatch ==
    reqs["r1"].op = "seed" /\ reqs["r1"].pc = "done"
    => \A p \in DOMAIN posts :
          /\ posts[p].likesCount = Len(posts[p].likes)
          /\ posts[p].commentsCount = Cardinality(CommentsOf(p))

====
